---- MODULE Spec2Model ----
(***************************************************************************)
(* TweetCordBot: the monitor-tweets task (src/trigger/tweetMonitor.ts)     *)
(* with its collaborators TwitterClient, DiscordClient and MemoryStorage.  *)
(* One run = validate, look the user up, fetch the latest tweets, read the *)
(* last processed id, diff, post the new tweets oldest-first, save the id. *)
(***************************************************************************)
EXTENDS Integers, Sequences, FiniteSets, TLC

(* ---- bounds of the model ---- *)
MaxTweets == 3      \* tweets the account publishes in a behaviour
MaxRuns == 2        \* runs of the task in a behaviour
MaxId == 5          \* largest tweet id in the fetched lists SpecDiff starts from
MaxStoreId == 2     \* largest tweet id saved in SpecStore
MaxOps == 4         \* calls made on the store in SpecStore

(* ---- program constants ---- *)
MaxResults == 5     \* getLatestTweets(userId, 5)
Null == 0           \* null / absent; tweet ids are 1, 2, 3, ... by recency

Required == {"X_BEARER_TOKEN", "X_USERNAME", "DISCORD_WEBHOOK_URL"}

VARIABLES
  env,            \* names of the required environment variables that are set
  published,      \* number of tweets on the account; their ids are 1..published
  runs,           \* runs started so far
  pc,             \* position of the current run
  storageKind,    \* which StorageInterface implementation `storage` is
  storage,        \* its state: the lastTweetId field of a MemoryStorage, the
                  \* file of a FileStorage, the variable of an EnvStorage
  fetched,        \* response.data.data as the source returned it (newest first)
  tweets,         \* contents of the array the local `tweets` names
  newTweets,      \* contents of the array the local `newTweets` names
  aliased,        \* TRUE when `newTweets` and `tweets` name the same array
  lastTweetId,    \* local lastTweetId, read from the storage
  idx,            \* position of the for-of iterator (1-based)
  processedCount, \* local processedCount
  error,          \* the error caught by the outer catch
  inFlight,       \* webhook POST requests sent and not yet answered
  events,         \* what the current run did, in order
  result,         \* what the run returned, or that it threw
  history         \* one summary per finished run, oldest first

vars == <<env, published, runs, pc, storageKind, storage, fetched, tweets, newTweets,
          aliased, lastTweetId, idx, processedCount, error, inFlight,
          events, result, history>>

(* ---- helpers over arrays ---- *)
Min(a, b) == IF a < b THEN a ELSE b

\* Array.prototype.reverse
Reverse(s) == [i \in 1..Len(s) |-> s[Len(s) - i + 1]]

\* Array.prototype.findIndex(t => t.id === id): 0-based, -1 when absent
FindIndex(s, id) ==
  IF \E i \in 1..Len(s) : s[i] = id
    THEN (CHOOSE i \in 1..Len(s) : s[i] = id /\ \A j \in 1..(i - 1) : s[j] # id) - 1
    ELSE -1

\* variant: the slice keeps the element at index k as well
Slice_Inclusive(s, k) == SubSeq(s, 1, k + 1)

\* Array.prototype.slice(0, k)
Slice(s, k) == SubSeq(s, 1, k)

\* the source's answer: the MaxResults most recent tweets, newest first
LatestTweets(n) == [i \in 1..Min(n, MaxResults) |-> n - i + 1]

(* ---- the StorageInterface implementations ---- *)
\* new MemoryStorage(): private lastTweetId = null
NewMemoryStorage == Null

\* the file of a FileStorage: missing/unreadable, or its text (an id, Null for
\* the empty text, possibly followed by white space)
NoFile == [exists |-> FALSE, data |-> Null, ws |-> FALSE]
FileWith(id, ws) == [exists |-> TRUE, data |-> id, ws |-> ws]

\* String.prototype.trim on the file's text
Trim(file) == file.data

\* fs.readFile succeeds
ReadOk(kind, st) == kind = "file" => st.exists

\* variant: FileStorage.getLastTweetId without its try/catch rejects when the
\* read fails
ReadThrows_Unguarded(kind, st) == ~ReadOk(kind, st)

\* getLastTweetId() rejects: never, FileStorage catches the read error itself
ReadThrows(kind, st) == FALSE

\* getLastTweetId(): MemoryStorage returns the field; FileStorage returns the
\* trimmed text, null when the read throws; EnvStorage returns process.env[key] || null
GetLastTweetId(kind, st) ==
  IF kind = "file" THEN (IF st.exists THEN Trim(st) ELSE Null) ELSE st

\* fs.writeFile may fail; the other two implementations cannot
SaveOutcomes(kind) == IF kind = "file" THEN BOOLEAN ELSE {TRUE}

\* variant: MemoryStorage keeps the id it already has (this.lastTweetId ||= tweetId)
SaveLastTweetId_KeepsFirst(kind, st, id, ok) ==
  IF kind = "memory" THEN (IF st = Null THEN id ELSE st)
  ELSE IF kind = "file" THEN (IF ok THEN FileWith(id, FALSE) ELSE st)
  ELSE st

\* saveLastTweetId(id): MemoryStorage sets the field; FileStorage writes the
\* file (ok) or leaves it (write failed); EnvStorage only logs
SaveLastTweetId(kind, st, id, ok) ==
  IF kind = "memory" THEN id
  ELSE IF kind = "file" THEN (IF ok THEN FileWith(id, FALSE) ELSE st)
  ELSE st

(* ---- decisions of monitorTweets.run ---- *)

\* variant: without a stored id only the latest tweet counts as new
NewTweetsOf_LatestOnly(ts, last) ==
  IF last = Null THEN Slice(ts, 1)
  ELSE IF FindIndex(ts, last) # -1 THEN Slice(ts, FindIndex(ts, last)) ELSE ts

\* variant: no test for -1, so an id that is not found gives tweets.slice(0, -1)
NewTweetsOf_NoFoundCheck(ts, last) ==
  IF last # Null
    THEN (IF FindIndex(ts, last) # -1 THEN Slice(ts, FindIndex(ts, last))
                                      ELSE SubSeq(ts, 1, Len(ts) - 1))
    ELSE ts

\* let newTweets = tweets; if (lastTweetId) { findIndex; if (!== -1) slice(0, index) }
NewTweetsOf(ts, last) ==
  IF last # Null /\ FindIndex(ts, last) # -1 THEN Slice(ts, FindIndex(ts, last)) ELSE ts

\* slice() makes a new array; otherwise newTweets is still the array `tweets`
SameArray(ts, last) == ~(last # Null /\ FindIndex(ts, last) # -1)

\* variant: the empty answer is not recognised
NoTweets_Never(ts) == FALSE

\* if (tweets.length === 0)
NoTweets(ts) == Len(ts) = 0

\* variant: the loop runs over newTweets as fetched (newest first)
DeliveryOrder_AsFetched(nt) == nt

\* for (const tweet of newTweets.reverse())
DeliveryOrder(nt) == Reverse(nt)

\* if (newTweets.length > 1 && processedCount < newTweets.length)
ShouldDelay(len, count) == len > 1 /\ count < len

\* variant: the array's other end is saved
SavedId_Last(ts) == ts[Len(ts)]

\* storage.saveLastTweetId(tweets[0].id): element 0 of `tweets` as it is by then
SavedId(ts) == ts[1]

\* variant: the id is saved after every batch
ShouldSave_Always(count) == TRUE

\* if (processedCount > 0)
ShouldSave(count) == count > 0

\* variant: the 429 branch is missing
IsRateLimited_Never(err) == FALSE

\* if (error.response?.status === 429)
IsRateLimited(err) == err = "http429"

(* ---- records ---- *)
Ev(op, kind, id, ph, ok) == [op |-> op, kind |-> kind, id |-> id, ph |-> ph, ok |-> ok]

NoResult == [status |-> "none", tweetsProcessed |-> 0, latestTweetId |-> Null, thrown |-> "none"]

\* return { status, message, tweetsProcessed, latestTweetId }
Returned(status, n, latest) ==
  [status |-> status, tweetsProcessed |-> n, latestTweetId |-> latest, thrown |-> "none"]

\* throw e: the task run fails with e
Thrown(e) == [status |-> "thrown", tweetsProcessed |-> 0, latestTweetId |-> Null, thrown |-> e]

\* ids whose sendTweet resolved, in the order it resolved
DeliveredIn(evs) ==
  LET ok == SelectSeq(evs, LAMBDA e : e.op = "sendMessage" /\ e.ph = "end" /\ e.ok
                                       /\ e.kind \in {"embed", "fallback"})
  IN [i \in 1..Len(ok) |-> ok[i].id]

\* ids for which sendTweet was called, in call order
AttemptedIn(evs) ==
  LET st == SelectSeq(evs, LAMBDA e : e.op = "sendMessage" /\ e.ph = "start" /\ e.kind = "embed")
  IN [i \in 1..Len(st) |-> st[i].id]

SavedIn(evs) ==
  LET sv == SelectSeq(evs, LAMBDA e : e.op = "saveLastTweetId")
  IN [i \in 1..Len(sv) |-> sv[i].id]

DidRead(evs) == \E i \in 1..Len(evs) : evs[i].op = "getLastTweetId"

Summary(evs, res) ==
  [fetched |-> fetched, didRead |-> DidRead(evs), read |-> lastTweetId,
   delivered |-> DeliveredIn(evs), attempted |-> AttemptedIn(evs),
   saved |-> SavedIn(evs), result |-> res]

\* the run is over: it returned res or threw
End(evs, res) ==
  /\ pc' = "done"
  /\ events' = evs
  /\ result' = res
  /\ history' = Append(history, Summary(evs, res))

(* ---- Init ---- *)
Init ==
  /\ env \in SUBSET Required
  /\ published = 0
  /\ runs = 0
  /\ pc = "idle"
  /\ storageKind = "memory"
  /\ storage = Null
  /\ fetched = <<>>
  /\ tweets = <<>>
  /\ newTweets = <<>>
  /\ aliased = FALSE
  /\ lastTweetId = Null
  /\ idx = 0
  /\ processedCount = 0
  /\ error = "none"
  /\ inFlight = 0
  /\ events = <<>>
  /\ result = NoResult
  /\ history = <<>>

(* ---- the account publishes a tweet (between runs) ---- *)
Publish ==
  /\ pc \in {"idle", "done"}
  /\ published < MaxTweets
  /\ published' = published + 1
  /\ UNCHANGED <<env, storageKind, runs, pc, storage, fetched, tweets, newTweets, aliased,
                 lastTweetId, idx, processedCount, error, inFlight, events,
                 result, history>>

(* ---- the scheduler triggers monitorTweets.run ---- *)
StartRun ==
  /\ pc \in {"idle", "done"}
  /\ runs < MaxRuns
  /\ runs' = runs + 1
  /\ pc' = "validate"
  /\ fetched' = <<>>
  /\ tweets' = <<>>
  /\ newTweets' = <<>>
  /\ aliased' = FALSE
  /\ lastTweetId' = Null
  /\ idx' = 0
  /\ processedCount' = 0
  /\ error' = "none"
  /\ events' = <<>>
  /\ result' = NoResult
  /\ UNCHANGED <<env, storageKind, published, storage, inFlight, history>>


\* control reaches the outer catch with error e
Catch(e, evs) ==
  /\ pc' = "catch"
  /\ error' = e
  /\ events' = evs

\* const config = validateConfig(); new TwitterClient; new DiscordClient; new MemoryStorage
Validate ==
  /\ pc = "validate"
  /\ IF env # Required
       THEN /\ Catch("config", events)
            /\ UNCHANGED <<storageKind, storage>>
       ELSE /\ pc' = "getUserId"
            /\ storageKind' = "memory"
            /\ storage' = NewMemoryStorage
            /\ UNCHANGED <<error, events>>
  /\ UNCHANGED <<env, published, runs, fetched, tweets, newTweets, aliased,
                 lastTweetId, idx, processedCount, inFlight, result, history>>

\* const userId = await twitterClient.getUserId(config.xUsername)
GetUserId ==
  /\ pc = "getUserId"
  /\ \E r \in {"ok", "http429", "other"} :
       LET evs == Append(events, Ev("getUserId", "source", Null, "end", r = "ok"))
       IN IF r = "ok"
            THEN pc' = "getLatestTweets" /\ events' = evs /\ UNCHANGED error
            ELSE Catch(r, evs)
  /\ UNCHANGED <<env, storageKind, published, runs, storage, fetched, tweets, newTweets, aliased,
                 lastTweetId, idx, processedCount, inFlight, result, history>>

\* const { tweets, users } = await twitterClient.getLatestTweets(userId, 5);
\* if (tweets.length === 0) return { status: 'success', ..., tweetsProcessed: 0 }
GetLatestTweets ==
  /\ pc = "getLatestTweets"
  /\ \E r \in {"ok", "http429", "other"} :
       LET evs == Append(events, Ev("getLatestTweets", "source", Null, "end", r = "ok"))
           data == LatestTweets(published)
       IN IF r = "ok"
            THEN /\ fetched' = data
                 /\ tweets' = data
                 /\ UNCHANGED error
                 /\ IF NoTweets(data)
                      THEN End(evs, Returned("success", 0, Null))
                      ELSE pc' = "diff" /\ events' = evs /\ UNCHANGED <<result, history>>
            ELSE /\ Catch(r, evs)
                 /\ UNCHANGED <<fetched, tweets, result, history>>
  /\ UNCHANGED <<env, storageKind, published, runs, storage, newTweets, aliased,
                 lastTweetId, idx, processedCount, inFlight>>

\* const lastTweetId = await storage.getLastTweetId(); the diff; the early return
\* when nothing is new; otherwise newTweets.reverse() and the loop begins
Diff ==
  /\ pc = "diff"
  /\ LET last == GetLastTweetId(storageKind, storage)
         evs == Append(events, Ev("getLastTweetId", "storage", last, "end",
                                  ReadOk(storageKind, storage)))
         nt == NewTweetsOf(tweets, last)
         same == SameArray(tweets, last)
     IN IF ReadThrows(storageKind, storage)
          THEN /\ Catch("other", evs)
               /\ UNCHANGED <<lastTweetId, aliased, newTweets, tweets, idx,
                              processedCount, result, history>>
          ELSE
        /\ lastTweetId' = last
        /\ aliased' = same
        /\ IF Len(nt) = 0
             THEN /\ newTweets' = nt
                  /\ UNCHANGED <<tweets, idx, processedCount>>
                  /\ IF Len(tweets) = 0
                       \* tweets[0].id of an empty array: a TypeError
                       THEN Catch("other", evs) /\ UNCHANGED <<result, history>>
                       ELSE End(evs, Returned("success", 0, tweets[1])) /\ UNCHANGED error
             ELSE /\ newTweets' = DeliveryOrder(nt)
                  \* reverse() reverses in place: `tweets` changes too when it is the same array
                  /\ tweets' = IF same THEN DeliveryOrder(nt) ELSE tweets
                  /\ idx' = 1
                  /\ processedCount' = 0
                  /\ pc' = "loop"
                  /\ events' = evs
                  /\ UNCHANGED <<error, result, history>>
  /\ UNCHANGED <<env, storageKind, published, runs, storage, fetched, inFlight>>

\* DiscordClient.sendMessage is entered: the webhook POST goes out
PostStart(kind, id) ==
  /\ inFlight' = inFlight + 1
  /\ events' = Append(events, Ev("sendMessage", kind, id, "start", TRUE))

\* try { await discordClient.sendTweet(tweet, user): sendMessage(content, embed)
SendTweet ==
  /\ pc = "loop"
  /\ idx <= Len(newTweets)
  /\ PostStart("embed", newTweets[idx])
  /\ pc' = "awaitEmbed"
  /\ UNCHANGED <<env, storageKind, published, runs, storage, fetched, tweets, newTweets, aliased,
                 lastTweetId, idx, processedCount, error, result, history>>

\* variant: the id of each tweet is saved as soon as it is sent
AfterSent_SaveEach(evs) ==
  /\ processedCount' = processedCount + 1
  /\ UNCHANGED error
  /\ storage' = SaveLastTweetId(storageKind, storage, newTweets[idx], TRUE)
  /\ IF ShouldDelay(Len(newTweets), processedCount + 1)
       THEN pc' = "delay" /\ UNCHANGED idx
       ELSE pc' = "loop" /\ idx' = idx + 1
  /\ events' = Append(evs, Ev("saveLastTweetId", "storage", newTweets[idx], "end", TRUE))

\* sendTweet resolved: processedCount++, then the pacing decision
AfterSent(evs) ==
  /\ processedCount' = processedCount + 1
  /\ UNCHANGED <<error, storage>>
  /\ IF ShouldDelay(Len(newTweets), processedCount + 1)
       THEN pc' = "delay" /\ UNCHANGED idx
       ELSE pc' = "loop" /\ idx' = idx + 1
  /\ events' = evs

\* variant: the URL-only message is sent after the embed whatever its fate
\* (a finally block in place of the catch)
EmbedDone_AlwaysFallback ==
  /\ pc = "awaitEmbed"
  /\ inFlight' = inFlight - 1
  /\ \E ok \in BOOLEAN :
       /\ pc' = "fallback"
       /\ events' = Append(events, Ev("sendMessage", "embed", newTweets[idx], "end", ok))
       /\ UNCHANGED <<idx, processedCount, error, storage>>
  /\ UNCHANGED <<env, storageKind, published, runs, fetched, tweets, newTweets, aliased,
                 lastTweetId, result, history>>

\* the embed POST is answered; on failure sendTweet falls back to the URL-only message
EmbedDone ==
  /\ pc = "awaitEmbed"
  /\ inFlight' = inFlight - 1
  /\ \E ok \in BOOLEAN :
       LET evs == Append(events, Ev("sendMessage", "embed", newTweets[idx], "end", ok))
       IN IF ok
            THEN AfterSent(evs)
            ELSE /\ pc' = "fallback"
                 /\ events' = evs
                 /\ UNCHANGED <<idx, processedCount, error, storage>>
  /\ UNCHANGED <<env, storageKind, published, runs, fetched, tweets, newTweets, aliased,
                 lastTweetId, result, history>>

\* catch (embedError) { await this.sendMessage(fallbackContent) }
SendFallback ==
  /\ pc = "fallback"
  /\ PostStart("fallback", newTweets[idx])
  /\ pc' = "awaitFallback"
  /\ UNCHANGED <<env, storageKind, published, runs, storage, fetched, tweets, newTweets, aliased,
                 lastTweetId, idx, processedCount, error, result, history>>

\* variant: no per-item try/catch, a failed tweet reaches the outer catch
ItemFailed_Abort(evs) ==
  /\ Catch("other", evs)
  /\ UNCHANGED <<idx, processedCount, storage>>

\* variant: a failed tweet is tried again
ItemFailed_Retry(evs) ==
  /\ pc' = "loop"
  /\ events' = evs
  /\ UNCHANGED <<idx, processedCount, error, storage>>

\* variant: the per-item catch rethrows what the destination answered, a 429
\* or any other error
ItemFailed_Rethrow(evs) ==
  /\ \E e \in {"http429", "other"} : Catch(e, evs)
  /\ UNCHANGED <<idx, processedCount, storage>>

\* catch (discordError) { logger.error(...) /* Continue with other tweets */ }:
\* whatever the destination answered (a 429 or any other error) is only logged
ItemFailed(evs) ==
  /\ pc' = "loop"
  /\ idx' = idx + 1
  /\ events' = evs
  /\ UNCHANGED <<processedCount, error, storage>>

\* the fallback POST is answered; on failure sendTweet rejects and the
\* per-item catch takes over
FallbackDone ==
  /\ pc = "awaitFallback"
  /\ inFlight' = inFlight - 1
  /\ \E ok \in BOOLEAN :
       LET evs == Append(events, Ev("sendMessage", "fallback", newTweets[idx], "end", ok))
       IN IF ok
            THEN AfterSent(evs)
            ELSE ItemFailed(evs)
  /\ UNCHANGED <<env, storageKind, published, runs, fetched, tweets, newTweets, aliased,
                 lastTweetId, result, history>>

\* variant: the timer promise is never resolved, the run hangs in the pacing delay
Delay_NeverResolves ==
  /\ pc = "delay"
  /\ pc' = "hung"
  /\ UNCHANGED <<env, storageKind, published, runs, storage, fetched, tweets, newTweets,
                 aliased, lastTweetId, idx, processedCount, error, inFlight, events,
                 result, history>>

\* await new Promise(resolve => setTimeout(resolve, 1000))
Delay ==
  /\ pc = "delay"
  /\ events' = Append(events, Ev("delay", "timer", newTweets[idx], "end", TRUE))
  /\ idx' = idx + 1
  /\ pc' = "loop"
  /\ UNCHANGED <<env, storageKind, published, runs, storage, fetched, tweets, newTweets, aliased,
                 lastTweetId, processedCount, error, inFlight, result, history>>

\* variant: FileStorage.saveLastTweetId without its try/catch, the write error
\* reaches the run's outer catch
SaveRejected_Propagate(evs, res) ==
  /\ Catch("other", evs)
  /\ UNCHANGED <<result, history>>

\* FileStorage.saveLastTweetId: catch (error) { console.error(...) }, the call resolves
SaveRejected(evs, res) ==
  /\ End(evs, res)
  /\ UNCHANGED error

\* after the loop: if (processedCount > 0) await storage.saveLastTweetId(tweets[0].id);
\* return { status: 'success', tweetsProcessed: processedCount, latestTweetId: tweets[0].id }
Persist ==
  /\ pc = "loop"
  /\ idx > Len(newTweets)
  /\ LET res == Returned("success", processedCount, tweets[1])
     IN IF ShouldSave(processedCount)
          THEN \E ok \in SaveOutcomes(storageKind) :
                 LET evs == Append(events, Ev("saveLastTweetId", "storage", SavedId(tweets), "end", ok))
                 IN /\ storage' = SaveLastTweetId(storageKind, storage, SavedId(tweets), ok)
                    /\ IF ok THEN End(evs, res) /\ UNCHANGED error
                             ELSE SaveRejected(evs, res)
          ELSE /\ UNCHANGED <<storage, error>>
               /\ End(events, res)
  /\ UNCHANGED <<env, storageKind, published, runs, fetched, tweets, newTweets, aliased,
                 lastTweetId, idx, processedCount, inFlight>>

\* variant: the notification is sent whenever the webhook URL is there
NotifyConfigOk_WebhookOnly(e) == "DISCORD_WEBHOOK_URL" \in e

\* the catch block's own `const config = validateConfig()` does not throw
NotifyConfigOk(e) == e = Required

\* catch (error): 429 returns rate_limited; anything else tries the Discord
\* notification (validateConfig may throw again, inside the inner try)
CatchError ==
  /\ pc = "catch"
  /\ IF IsRateLimited(error)
       THEN /\ End(events, Returned("rate_limited", 0, Null))
            /\ UNCHANGED inFlight
       ELSE IF ~NotifyConfigOk(env)
         THEN /\ End(events, Thrown(error))
              /\ UNCHANGED inFlight
         ELSE /\ PostStart("notify", Null)
              /\ pc' = "awaitNotify"
              /\ UNCHANGED <<result, history>>
  /\ UNCHANGED <<env, storageKind, published, runs, storage, fetched, tweets, newTweets, aliased,
                 lastTweetId, idx, processedCount, error>>

\* variant: a failed notification is not caught and replaces the error
NotifyAnswered_Propagate(ok, evs) == End(evs, Thrown(IF ok THEN error ELSE "discord"))

\* catch (discordError) { logger.error(...) } then throw error: whatever the
\* notification's fate, the run fails with the error the outer catch caught
NotifyAnswered(ok, evs) == End(evs, Thrown(error))

\* the notification POST is answered
NotifyDone ==
  /\ pc = "awaitNotify"
  /\ inFlight' = inFlight - 1
  /\ \E ok \in BOOLEAN :
       NotifyAnswered(ok, Append(events, Ev("sendMessage", "notify", Null, "end", ok)))
  /\ UNCHANGED <<env, storageKind, published, runs, storage, fetched, tweets, newTweets, aliased,
                 lastTweetId, idx, processedCount, error>>

Next ==
  \/ Publish
  \/ StartRun
  \/ Validate
  \/ GetUserId
  \/ GetLatestTweets
  \/ Diff
  \/ SendTweet
  \/ EmbedDone
  \/ SendFallback
  \/ FallbackDone
  \/ Delay
  \/ Persist
  \/ CatchError
  \/ NotifyDone

Spec == Init /\ [][Next]_vars

\* the steps of a run in progress; the runtime keeps executing a started run and
\* every network call and timer eventually answers
RunStep ==
  \/ Validate
  \/ GetUserId
  \/ GetLatestTweets
  \/ Diff
  \/ SendTweet
  \/ EmbedDone
  \/ SendFallback
  \/ FallbackDone
  \/ Delay
  \/ Persist
  \/ CatchError
  \/ NotifyDone

FairSpec == Init /\ [][Next]_vars /\ WF_vars(RunStep)

(* ---- the run from its diff step on, for every fetched list and every state of
        every StorageInterface implementation ---- *)
RECURSIVE DescSeq(_)
\* the ids of S, newest (largest) first: the order the source returns them in
DescSeq(S) ==
  IF S = {} THEN <<>>
  ELSE LET m == CHOOSE x \in S : \A y \in S : y <= x
       IN <<m>> \o DescSeq(S \ {m})

\* non-empty answers of getLatestTweets: at most MaxResults tweets, newest first
FetchedLists ==
  {DescSeq(S) : S \in {T \in SUBSET (1..MaxId) : T # {} /\ Cardinality(T) <= MaxResults}}

\* states a store can be in when the run reads it
Stores ==
  ({"memory", "env"} \X (0..MaxId))
    \cup ({"file"} \X ({NoFile} \cup {FileWith(id, ws) : id \in 0..MaxId, ws \in BOOLEAN}))

InitDiff ==
  /\ env = Required
  /\ runs = 1
  /\ pc = "diff"
  /\ \E st \in Stores : storageKind = st[1] /\ storage = st[2]
  /\ fetched \in FetchedLists
  /\ tweets = fetched
  /\ published = fetched[1]
  /\ newTweets = <<>>
  /\ aliased = FALSE
  /\ lastTweetId = Null
  /\ idx = 0
  /\ processedCount = 0
  /\ error = "none"
  /\ inFlight = 0
  /\ events = <<Ev("getUserId", "source", Null, "end", TRUE),
                Ev("getLatestTweets", "source", Null, "end", TRUE)>>
  /\ result = NoResult
  /\ history = <<>>

NextDiff ==
  \/ Diff
  \/ SendTweet
  \/ EmbedDone
  \/ SendFallback
  \/ FallbackDone
  \/ Delay
  \/ Persist

SpecDiff == InitDiff /\ [][NextDiff]_vars

(* ---- one store on its own: any sequence of saveLastTweetId / getLastTweetId
        calls on any implementation ---- *)
StoresUpTo(n) ==
  ({"memory", "env"} \X (0..n))
    \cup ({"file"} \X ({NoFile} \cup {FileWith(id, ws) : id \in 0..n, ws \in BOOLEAN}))

InitStore ==
  /\ env = Required
  /\ runs = 0
  /\ pc = "idle"
  /\ \E st \in StoresUpTo(MaxStoreId) : storageKind = st[1] /\ storage = st[2]
  /\ published = 0
  /\ fetched = <<>>
  /\ tweets = <<>>
  /\ newTweets = <<>>
  /\ aliased = FALSE
  /\ lastTweetId = Null
  /\ idx = 0
  /\ processedCount = 0
  /\ error = "none"
  /\ inFlight = 0
  /\ events = <<>>
  /\ result = NoResult
  /\ history = <<>>

\* await storage.saveLastTweetId(id)
StoreSave ==
  /\ Len(events) < MaxOps
  /\ \E id \in 1..MaxStoreId, ok \in SaveOutcomes(storageKind) :
       /\ storage' = SaveLastTweetId(storageKind, storage, id, ok)
       /\ events' = Append(events, Ev("saveLastTweetId", "storage", id, "end", ok))
  /\ UNCHANGED <<env, storageKind, published, runs, pc, fetched, tweets, newTweets,
                 aliased, lastTweetId, idx, processedCount, error, inFlight,
                 result, history>>

\* const lastTweetId = await storage.getLastTweetId()
StoreGet ==
  /\ Len(events) < MaxOps
  /\ lastTweetId' = GetLastTweetId(storageKind, storage)
  /\ events' = Append(events, Ev("getLastTweetId", "storage",
                                 GetLastTweetId(storageKind, storage), "end",
                                 ReadOk(storageKind, storage)))
  /\ UNCHANGED <<env, storageKind, published, runs, pc, storage, fetched, tweets,
                 newTweets, aliased, idx, processedCount, error, inFlight,
                 result, history>>

NextStore ==
  \/ StoreSave
  \/ StoreGet

SpecStore == InitStore /\ [][NextStore]_vars

TypeOK ==
  /\ env \subseteq Required
  /\ published \in 0..MaxTweets
  /\ runs \in 0..MaxRuns
  /\ inFlight \in 0..1
  /\ Len(history) <= runs

(* ---- what a run did, read off its events ---- *)
PostEvents(evs) == SelectSeq(evs, LAMBDA e : e.op = "sendMessage")
ItemPosts(evs) == SelectSeq(evs, LAMBDA e : e.op = "sendMessage" /\ e.kind \in {"embed", "fallback"})
NotifyStarts(evs) == SelectSeq(evs, LAMBDA e : e.op = "sendMessage" /\ e.kind = "notify" /\ e.ph = "start")
Count(evs, ph, n) == Cardinality({i \in 1..n : evs[i].op = "sendMessage" /\ evs[i].ph = ph})
SourceFailed(evs) ==
  \E i \in 1..Len(evs) : evs[i].op \in {"getUserId", "getLatestTweets"} /\ ~evs[i].ok
FetchedNothing(evs) ==
  /\ \E i \in 1..Len(evs) : evs[i].op = "getLatestTweets" /\ evs[i].ok
  /\ fetched = <<>>
Last(s) == s[Len(s)]
\* the ids of list strictly newer than id, oldest first
NewerThan(list, id) == Reverse(SelectSeq(list, LAMBDA t : t > id))
NoDuplicates(s) == \A i, j \in 1..Len(s) : i # j => s[i] # s[j]
AllDelivered(h) == Len(h.delivered) = Len(h.attempted)

(* ---- claims ---- *)

\* C1: a run that delivers at least one item writes the id of the newest item of
\* its fetch result (the first element of the list as the source returned it).
C1_SavesNewestFetched ==
  (pc = "done" /\ Len(DeliveredIn(events)) > 0)
    => (SavedIn(events) = <<fetched[1]>> /\ storage = fetched[1])

\* C2: idempotence. When a run delivers every new item and the next run is given
\* the same non-empty list, the next run posts no item and reports 0 processed.
C2_SecondRunIdle ==
  \A i \in 2..Len(history) :
    (/\ history[i - 1].result.status = "success"
     /\ AllDelivered(history[i - 1])
     /\ history[i].fetched = history[i - 1].fetched
     /\ history[i].fetched # <<>>
     /\ history[i].result.status = "success")
    => (history[i].attempted = <<>> /\ history[i].result.tweetsProcessed = 0)

\* C3: exactly once. While every delivery succeeds and the saved id is still in
\* each fetched list, a run posts exactly the items newer than the newest item of
\* the previous run's fetch, and never an item an earlier run posted.
C3_ExactlyOnce ==
  \A i \in 2..Len(history) :
    (/\ \A j \in 1..i : history[j].result.status = "success" /\ AllDelivered(history[j])
     /\ history[i - 1].fetched # <<>>
     /\ \A j \in 2..i : \A k \in 1..Len(history[j - 1].saved) :
          \E m \in 1..Len(history[j].fetched) : history[j].fetched[m] = history[j - 1].saved[k])
    => (/\ history[i].delivered = NewerThan(history[i].fetched, history[i - 1].fetched[1])
        /\ \A j \in 1..(i - 1) : \A a \in 1..Len(history[j].delivered) :
             \A b \in 1..Len(history[i].delivered) :
               history[j].delivered[a] # history[i].delivered[b])

\* C4: the id a run saves after delivering is the id the next run reads at its start.
C4_NextRunReadsSaved ==
  \A i \in 2..Len(history) :
    (history[i - 1].saved # <<>> /\ history[i].didRead)
      => history[i].read = Last(history[i - 1].saved)

\* C5: within a run the new items are posted one at a time and oldest first: a
\* post starts only when every earlier post has been answered, and the posts
\* for an older item all come before the posts for a newer one.
C5_SequentialOldestFirst ==
  /\ inFlight <= 1
  /\ \A p \in 1..Len(events) :
       (events[p].op = "sendMessage" /\ events[p].ph = "start")
         => Count(events, "start", p - 1) = Count(events, "end", p - 1)
  /\ LET posts == ItemPosts(events)
     IN \A p, q \in 1..Len(posts) : p < q => posts[p].id <= posts[q].id
  /\ NoDuplicates(AttemptedIn(events))

C5_Witness ==
  /\ pc = "done"
  /\ Len(AttemptedIn(events)) = 3
  /\ Len(DeliveredIn(events)) = 2
  /\ \E p \in 1..Len(events) : events[p].kind = "fallback" /\ events[p].ph = "end" /\ events[p].ok

\* C6: per-item failure isolation. A run with a non-empty new subset attempts
\* every item of the subset exactly once, in order, whatever failed before; it
\* ends with status success and tweetsProcessed = number of delivered items.
C6_FailureIsolation ==
  (pc = "done" /\ Len(NewTweetsOf(fetched, lastTweetId)) > 0 /\ DidRead(events))
    => (/\ AttemptedIn(events) = Reverse(NewTweetsOf(fetched, lastTweetId))
        /\ result.status = "success"
        /\ result.thrown = "none"
        /\ result.tweetsProcessed = Len(DeliveredIn(events))
        /\ NotifyStarts(events) = <<>>)

\* one failure in the middle of a batch of three: 2 processed
C6_Witness ==
  /\ pc = "done"
  /\ Len(AttemptedIn(events)) = 3
  /\ DeliveredIn(events) = <<1, 3>>
  /\ result.tweetsProcessed = 2

\* C7: the store is written only when processedCount > 0; a run that delivered
\* nothing skips the save and leaves the store as the run found it.
C7_SaveOnlyAfterDelivery ==
  /\ SavedIn(events) # <<>> => Len(DeliveredIn(events)) > 0
  /\ (pc = "done" /\ Len(DeliveredIn(events)) = 0)
       => (SavedIn(events) = <<>> /\ (DidRead(events) => storage = lastTweetId))

\* every delivery of the batch failed
C7_Witness ==
  /\ pc = "done"
  /\ Len(AttemptedIn(events)) = 2
  /\ DeliveredIn(events) = <<>>
  /\ result.status = "success"

\* C8: a 429 from the source ends the run normally with status rate_limited and
\* 0 processed; nothing is posted (no item, no notification), nothing is saved.
C8_RateLimited ==
  (pc = "done" /\ error = "http429")
    => (/\ result = Returned("rate_limited", 0, Null)
        /\ PostEvents(events) = <<>>
        /\ SavedIn(events) = <<>>
        /\ storage = NewMemoryStorage)

C8_Witness ==
  /\ pc = "done"
  /\ error = "http429"
  /\ \E i \in 1..Len(events) : events[i].op = "getLatestTweets" /\ ~events[i].ok

\* C9: any other source failure makes the run attempt exactly one error
\* notification and then fail with the source's error, also when the notification
\* fails; no item is delivered and nothing is saved.
C9_SourceErrorNotifiedAndRaised ==
  (pc = "done" /\ SourceFailed(events) /\ error # "http429")
    => (/\ Len(NotifyStarts(events)) = 1
        /\ result = Thrown("other")
        /\ ItemPosts(events) = <<>>
        /\ SavedIn(events) = <<>>
        /\ storage = NewMemoryStorage)

\* the notification itself failed
C9_Witness ==
  /\ pc = "done"
  /\ SourceFailed(events)
  /\ error = "other"
  /\ \E i \in 1..Len(events) : events[i].kind = "notify" /\ events[i].ph = "end" /\ ~events[i].ok

\* C10: a fetch that succeeds with zero items ends the run with status success and
\* 0 processed; the store is neither read nor written and nothing is posted.
C10_EmptyFetch ==
  (pc = "done" /\ FetchedNothing(events))
    => (/\ result = Returned("success", 0, Null)
        /\ ~DidRead(events)
        /\ SavedIn(events) = <<>>
        /\ storage = NewMemoryStorage
        /\ PostEvents(events) = <<>>)

C10_Witness ==
  /\ pc = "done"
  /\ FetchedNothing(events)
  /\ runs = 2
  /\ history[1].result.status = "success"

\* C11: with a required configuration value missing the run fails with an error
\* raised to the caller and touches nothing: no user lookup, no fetch, no post of
\* any kind (item or notification), no read or write of the store.
C11_MissingConfigFailsEarly ==
  (env # Required /\ pc \notin {"idle", "validate"})
    => (/\ events = <<>>
        /\ inFlight = 0
        /\ pc \in {"catch", "done"}
        /\ pc = "done" => result = Thrown("config"))

\* only the bearer token is missing: the webhook is configured, still no notification
C11_Witness ==
  /\ env = Required \ {"X_BEARER_TOKEN"}
  /\ pc = "done"
  /\ runs = 2
  /\ result.thrown = "config"

\* C12: every started run reaches its end (network calls and timers answering),
\* and at its end the outcome is exactly one of success (ok), rate_limited or a
\* thrown error; it is never left unset.
C12_RunTerminatesWithOutcome ==
  /\ [](pc = "done" => result.status \in {"success", "rate_limited", "thrown"})
  /\ [](pc = "done" => (result.status = "thrown" <=> result.thrown # "none"))
  /\ [](pc \notin {"idle", "done"} => <>(pc = "done"))

\* a run that went through pacing delays and a failed item has ended
C12_Witness ==
  /\ pc = "done"
  /\ result.status = "success"
  /\ \E i \in 1..Len(events) : events[i].op = "delay"
  /\ Len(DeliveredIn(events)) < Len(AttemptedIn(events))

(* ---- the diff, stated from the fetched list alone ---- *)
\* 0-based position of id in list (ids are unique)
PositionOf(list, id) == CHOOSE k \in 0..(Len(list) - 1) : list[k + 1] = id
InList(list, id) == \E i \in 1..Len(list) : list[i] = id
\* the k newest items of list, oldest first: position k-1 first, position 0 last
NewestOldestFirst(list, k) == [i \in 1..k |-> list[k - i + 1]]
IsPrefix(a, b) == Len(a) <= Len(b) /\ \A i \in 1..Len(a) : a[i] = b[i]
\* the run has read the store and computed the new subset
Diffed == DidRead(events) /\ pc # "catch" /\ error = "none"
ReadFailed(evs) == \E i \in 1..Len(evs) : evs[i].op = "getLastTweetId" /\ ~evs[i].ok
SaveFailed(evs) == \E i \in 1..Len(evs) : evs[i].op = "saveLastTweetId" /\ ~evs[i].ok

\* C13: when the fetched list holds the stored id at 0-based position k, the new
\* subset is exactly the k items before it, delivered oldest first (position k-1
\* first, position 0 last); it never holds the stored item or an older one, and
\* for k = 0 it is empty and the run ends with nothing posted.
C13_DiffWatermarkFound ==
  (Diffed /\ lastTweetId # Null /\ InList(fetched, lastTweetId))
    => LET k == PositionOf(fetched, lastTweetId)
       IN /\ newTweets = NewestOldestFirst(fetched, k)
          /\ \A i \in 1..Len(newTweets) : newTweets[i] > lastTweetId
          /\ IsPrefix(AttemptedIn(events), NewestOldestFirst(fetched, k))
          /\ pc = "done" => AttemptedIn(events) = NewestOldestFirst(fetched, k)
          /\ k = 0 => (pc = "done" /\ PostEvents(events) = <<>> /\ result.tweetsProcessed = 0)

\* fetched [id5, id4, id3, id2, id1] with stored id3: id4 then id5
C13_Witness ==
  /\ pc = "done"
  /\ fetched = <<5, 4, 3, 2, 1>>
  /\ lastTweetId = 3
  /\ AttemptedIn(events) = <<4, 5>>

\* C14: when the store holds no id, the new subset of a non-empty fetched list is
\* the whole list, delivered in reversed (oldest-first) order.
C14_DiffNoWatermark ==
  (Diffed /\ lastTweetId = Null)
    => (/\ newTweets = NewestOldestFirst(fetched, Len(fetched))
        /\ IsPrefix(AttemptedIn(events), NewestOldestFirst(fetched, Len(fetched)))
        /\ pc = "done" => AttemptedIn(events) = NewestOldestFirst(fetched, Len(fetched)))

C14_Witness ==
  /\ pc = "done"
  /\ ~ReadFailed(events)
  /\ lastTweetId = Null
  /\ fetched = <<5, 3, 2>>
  /\ AttemptedIn(events) = <<2, 3, 5>>

\* C15: when the stored id equals no id of the fetched list, the new subset is
\* the entire fetched list, oldest first; no fetched item is left out.
C15_DiffWatermarkNotInWindow ==
  (Diffed /\ lastTweetId # Null /\ ~InList(fetched, lastTweetId))
    => (/\ newTweets = NewestOldestFirst(fetched, Len(fetched))
        /\ pc = "done" => AttemptedIn(events) = NewestOldestFirst(fetched, Len(fetched)))

\* the stored id 2 is older than the window (or was deleted)
C15_Witness ==
  /\ pc = "done"
  /\ lastTweetId = 2
  /\ fetched = <<5, 4, 3>>
  /\ AttemptedIn(events) = <<3, 4, 5>>

\* C16: a failed read of the store is not propagated: the read gives "no id", the
\* run goes on and treats every fetched item as new.
C16_ReadFailureIsNoWatermark ==
  ReadFailed(events)
    => (/\ pc # "catch"
        /\ error = "none"
        /\ lastTweetId = Null
        /\ newTweets = NewestOldestFirst(fetched, Len(fetched))
        /\ NotifyStarts(events) = <<>>
        /\ pc = "done" => (/\ AttemptedIn(events) = NewestOldestFirst(fetched, Len(fetched))
                           /\ result.status = "success"))

C16_Witness ==
  /\ pc = "done"
  /\ storageKind = "file"
  /\ ReadFailed(events)
  /\ Len(AttemptedIn(events)) = 3
  /\ Len(DeliveredIn(events)) = 3

\* C17: a failed write of the store does not fail the run: it returns success with
\* tweetsProcessed = number of delivered items, raises nothing, posts no
\* notification and posts no delivered item again.
C17_WriteFailureIsSwallowed ==
  SaveFailed(events)
    => (/\ pc = "done"
        /\ error = "none"
        /\ result.status = "success"
        /\ result.thrown = "none"
        /\ result.tweetsProcessed = Len(DeliveredIn(events))
        /\ NotifyStarts(events) = <<>>
        /\ NoDuplicates(DeliveredIn(events))
        /\ Len(SavedIn(events)) = 1)

C17_Witness ==
  /\ pc = "done"
  /\ SaveFailed(events)
  /\ storage = FileWith(1, TRUE)
  /\ DeliveredIn(events) = <<3, 4>>
  /\ Len(AttemptedIn(events)) = 3

\* C18: in a batch of more than one item a pacing delay lies between the end of
\* each item's post attempt and the start of the next item's, whether the earlier
\* attempt succeeded or failed; a batch of one item has no delay.
C18_DelayBetweenAllAttempts ==
  /\ \A p \in 2..Len(events) :
       (/\ events[p].op = "sendMessage" /\ events[p].kind = "embed" /\ events[p].ph = "start"
        /\ events[p - 1].op # "getLastTweetId")
         => events[p - 1].op = "delay"
  /\ Len(newTweets) = 1 => \A p \in 1..Len(events) : events[p].op # "delay"

\* C19: a run that fetched a non-empty list and ended normally returns
\* latestTweetId = id of the newest fetched item.
C19_LatestTweetIdIsNewest ==
  (pc = "done" /\ result.status = "success" /\ fetched # <<>>)
    => result.latestTweetId = fetched[1]

\* C20: a run goes fetch, read, diff, deliver, persist: no item is posted before
\* the fetch and the read have completed, and the store is written only after the
\* post attempt of the last item of the batch has completed.
C20_StepOrder ==
  /\ \A p \in 1..Len(events) :
       (events[p].op = "sendMessage" /\ events[p].kind \in {"embed", "fallback"})
         => \E f, r \in 1..(p - 1) :
              /\ f < r
              /\ events[f].op = "getLatestTweets" /\ events[f].ok
              /\ events[r].op = "getLastTweetId"
  /\ \A p \in 1..Len(events) :
       events[p].op = "getLastTweetId"
         => \E f \in 1..(p - 1) : events[f].op = "getLatestTweets" /\ events[f].ok
  /\ \A p \in 1..Len(events) :
       events[p].op = "saveLastTweetId"
         => (/\ p = Len(events)
             /\ inFlight = 0
             /\ Count(events, "start", p) = Count(events, "end", p)
             /\ AttemptedIn(events) = Reverse(NewTweetsOf(fetched, lastTweetId)))

\* three items, the first failed, the id saved at the very end
C20_Witness ==
  /\ pc = "done"
  /\ runs = 1
  /\ DeliveredIn(events) = <<2, 3>>
  /\ Len(AttemptedIn(events)) = 3
  /\ events[Len(events)].op = "saveLastTweetId"

(* ---- counting the calls of a run ---- *)
Calls(evs, op) == Cardinality({i \in 1..Len(evs) : evs[i].op = op})
Posts(evs, kind, id, ph) ==
  Cardinality({i \in 1..Len(evs) : /\ evs[i].op = "sendMessage" /\ evs[i].kind = kind
                                    /\ evs[i].id = id /\ evs[i].ph = ph})
PostStarts(evs) == Cardinality({i \in 1..Len(evs) : evs[i].op = "sendMessage" /\ evs[i].ph = "start"})

\* C21: no retry inside a run: getUserId and getLatestTweets are each called at
\* most once, sendTweet at most once per item of the new subset, at most one error
\* notification is posted, and the posts of a run number at most 2 * batch + 1.
C21_NoInternalRetry ==
  /\ Calls(events, "getUserId") <= 1
  /\ Calls(events, "getLatestTweets") <= 1
  /\ Calls(events, "getLastTweetId") <= 1
  /\ NoDuplicates(AttemptedIn(events))
  /\ \A i \in 1..Len(newTweets) :
       /\ Posts(events, "embed", newTweets[i], "start") <= 1
       /\ Posts(events, "fallback", newTweets[i], "start") <= 1
  /\ Len(NotifyStarts(events)) <= 1
  /\ PostStarts(events) <= 2 * Len(newTweets) + 1

\* every post of a batch of three failed: six posts, none repeated
C21_Witness ==
  /\ pc = "done"
  /\ Len(newTweets) = 3
  /\ PostStarts(events) = 6
  /\ DeliveredIn(events) = <<>>

(* ---- save then get ---- *)
IsSave(evs, q) == evs[q].op = "saveLastTweetId"
\* q is the latest save before the call at p
LatestSaveBefore(evs, q, p) ==
  /\ q < p
  /\ IsSave(evs, q)
  /\ \A r \in (q + 1)..(p - 1) : ~IsSave(evs, r)
RoundTrip(evs) ==
  \A p \in 1..Len(evs) : \A q \in 1..Len(evs) :
    (evs[p].op = "getLastTweetId" /\ LatestSaveBefore(evs, q, p) /\ evs[q].ok)
      => evs[p].id = evs[q].id

\* C22 as stated: on every StorageInterface implementation, once
\* saveLastTweetId(id) has returned without a storage failure, getLastTweetId()
\* returns id until the next save.
C22_RoundTripEveryStore == RoundTrip(events)

\* C22 as amended: the round trip holds on MemoryStorage and FileStorage (a failed
\* later write leaves the file as the last good write made it); EnvStorage's
\* saveLastTweetId only logs, so its getLastTweetId keeps returning the value of
\* the environment variable.
C22_RoundTripMemoryAndFile ==
  /\ storageKind \in {"memory", "file"} => RoundTrip(events)
  /\ storageKind = "env" =>
       \A p \in 1..Len(events) : \A q \in 1..Len(events) :
         (events[p].op = "getLastTweetId" /\ events[q].op = "getLastTweetId")
           => events[p].id = events[q].id

\* a file written with 2, a later write that failed, and a read that gives 2
C22_Witness ==
  /\ storageKind = "file"
  /\ Len(events) = 3
  /\ events[1] = Ev("saveLastTweetId", "storage", 2, "end", TRUE)
  /\ events[2] = Ev("saveLastTweetId", "storage", 1, "end", FALSE)
  /\ events[3] = Ev("getLastTweetId", "storage", 2, "end", TRUE)

(* ---- the posts made for one tweet ---- *)
PostOk(evs, kind, id) ==
  \E i \in 1..Len(evs) : /\ evs[i].op = "sendMessage" /\ evs[i].kind = kind
                         /\ evs[i].id = id /\ evs[i].ph = "end" /\ evs[i].ok
PostFailed(evs, kind, id) ==
  \E i \in 1..Len(evs) : /\ evs[i].op = "sendMessage" /\ evs[i].kind = kind
                         /\ evs[i].id = id /\ evs[i].ph = "end" /\ ~evs[i].ok
\* position of the first event of that kind, phase and id
PosOf(evs, kind, id, ph) ==
  CHOOSE i \in 1..Len(evs) : /\ evs[i].op = "sendMessage" /\ evs[i].kind = kind
                             /\ evs[i].id = id /\ evs[i].ph = ph
\* items whose sendTweet call is over
Settled(evs) ==
  {id \in {newTweets[i] : i \in 1..Len(newTweets)} :
     PostOk(evs, "embed", id) \/ Posts(evs, "fallback", id, "end") > 0}

\* C23: sendTweet posts the embed first; the URL-only fallback is posted exactly
\* when the embed post failed, and once; the tweet counts as delivered iff one of
\* the two posts succeeded, and no tweet gets two successful posts.
C23_SendTweetFallback ==
  /\ \A i \in 1..Len(newTweets) :
       LET id == newTweets[i]
       IN /\ Posts(events, "embed", id, "start") <= 1
          /\ Posts(events, "fallback", id, "start") <= 1
          /\ Posts(events, "fallback", id, "start") = 1
               => (/\ PostFailed(events, "embed", id)
                   /\ PosOf(events, "embed", id, "end") < PosOf(events, "fallback", id, "start"))
          /\ (PostFailed(events, "embed", id) /\ pc # "fallback")
               => Posts(events, "fallback", id, "start") = 1
          /\ ~(PostOk(events, "embed", id) /\ PostOk(events, "fallback", id))
  /\ processedCount =
       Cardinality({id \in Settled(events) :
                      PostOk(events, "embed", id) \/ PostOk(events, "fallback", id)})
  /\ pc = "done" /\ result.status = "success" /\ Len(newTweets) > 0
       => result.tweetsProcessed = Len(newTweets)
            - Cardinality({id \in Settled(events) :
                             PostFailed(events, "embed", id) /\ PostFailed(events, "fallback", id)})

\* one tweet sent by its embed, one by the fallback, one lost to two failures
C23_Witness ==
  /\ pc = "done"
  /\ Len(newTweets) = 3
  /\ PostOk(events, "embed", 1)
  /\ PostFailed(events, "embed", 2) /\ PostOk(events, "fallback", 2)
  /\ PostFailed(events, "embed", 3) /\ PostFailed(events, "fallback", 3)
  /\ result.tweetsProcessed = 2

\* C24: the pacing delay lies only between messages: whatever succeeded or
\* failed, no delay is waited after the post attempt of the last item of the batch.
C24_NoDelayAfterLastItem ==
  \A p \in 1..Len(events) :
    events[p].op = "delay" => events[p].id # newTweets[Len(newTweets)]

\* C25 as stated: a run that overwrites the stored id never replaces it by the id
\* of an older item, also when the stored item is no longer in the fetched list.
C25_WatermarkNeverRegresses ==
  (pc = "done" /\ storageKind \in {"memory", "file"} /\ lastTweetId # Null
     /\ SavedIn(events) # <<>> /\ ~SaveFailed(events))
    => (GetLastTweetId(storageKind, storage) >= lastTweetId)

\* C25 as amended: the stored id does not regress when the stored item is still
\* in the fetched list or every fetched item is newer than it. (When the stored
\* item is gone and the list holds older items, the run saves an older id.)
C25_NoRegressWhenFoundOrAllNewer ==
  (pc = "done" /\ storageKind \in {"memory", "file"} /\ lastTweetId # Null
     /\ SavedIn(events) # <<>> /\ ~SaveFailed(events)
     /\ (InList(fetched, lastTweetId) \/ \A i \in 1..Len(fetched) : fetched[i] > lastTweetId))
    => (/\ GetLastTweetId(storageKind, storage) >= lastTweetId
        /\ SavedIn(events) = <<GetLastTweetId(storageKind, storage)>>)

\* stored id 2 found in [5, 4, 3, 2, 1]: the run saves 5
C25_Witness ==
  /\ pc = "done"
  /\ storageKind = "memory"
  /\ lastTweetId = 2
  /\ fetched = <<5, 4, 3, 2, 1>>
  /\ storage = 5

\* C26: a run that ends with an error raised to the caller has posted no item and
\* saved no id: whatever can escape the run happens before the first item post.
C26_ThrownRunDeliveredNothing ==
  (pc = "done" /\ result.status = "thrown")
    => (/\ ItemPosts(events) = <<>>
        /\ AttemptedIn(events) = <<>>
        /\ SavedIn(events) = <<>>
        /\ ~DidRead(events))

\* a second run fails at the fetch after the first run delivered
C26_Witness ==
  /\ pc = "done"
  /\ runs = 2
  /\ result = Thrown("other")
  /\ Len(history[1].delivered) = 2
  /\ \E i \in 1..Len(events) : events[i].op = "getLatestTweets" /\ ~events[i].ok

\* C27: a run ends rate_limited only after a source call failed with 429; a
\* failure answered by the destination while an item is posted is absorbed and
\* never makes the outcome rate_limited or an error.
C27_RateLimitedOnlyFromSource ==
  /\ (pc = "done" /\ result.status = "rate_limited")
       => (/\ SourceFailed(events)
           /\ error = "http429"
           /\ events[Len(events)].op \in {"getUserId", "getLatestTweets"})
  /\ (\E i \in 1..Len(events) : /\ events[i].op = "sendMessage" /\ events[i].ph = "end"
                                /\ events[i].kind \in {"embed", "fallback"} /\ ~events[i].ok)
       => (/\ error = "none"
           /\ pc # "catch"
           /\ pc = "done" => result.status = "success")

\* every post of the batch was refused, the run still returns success
C27_Witness ==
  /\ pc = "done"
  /\ Len(newTweets) = 2
  /\ PostFailed(events, "fallback", 1)
  /\ PostFailed(events, "fallback", 2)
  /\ result = Returned("success", 0, 1)

====
